---- MODULE Spec2Model ----
(***************************************************************************)
(* A model of src/main.py: the channel-id cache (load_cache, save_cache,   *)
(* get_cached_channel_id, cache_channel_id, clear_cache), retry_request    *)
(* and its two callers, get_youtube_channel_id, create_rss_feed_url,       *)
(* filter_videos and the runs of __main__.                                 *)
(*                                                                         *)
(* Text is a sequence of symbols.  A symbol is one character ("U", "C",    *)
(* "a", "b": characters of [a-zA-Z0-9_-]; "?": a character outside that     *)
(* class; Quote) or one of the literals the regular expressions of the     *)
(* source look for (ChannelPath, HandlePath, ChannelIdKey, ChannelIdKey2). *)
(***************************************************************************)
EXTENDS Integers, Sequences, FiniteSets, TLC

VARIABLES
    pc,             \* position of the running operation
    source_code,    \* the page document handed to get_youtube_channel_id
    channel_id,     \* what the extraction / the resolution produced
    file,           \* ~/.youtuberss/cache.json
    clock,          \* datetime.now()
    op,             \* the cache operation called last, with its arguments
    ret,            \* what that call returned or raised
    file0,          \* the file before that call
    proc,           \* two processes inside cache_channel_id: position, arguments, loaded map
    lastSaver,      \* the process whose save_cache wrote the file last (0: none)
    retry,          \* the frame of retry_request and of the function that called it
    fetched,        \* what get_youtube_source_code / fetch_rss_feed_content returned
    printed,        \* the error message that function printed
    requests,       \* the requests issued in this run, by caller
    args,           \* the parsed command line
    outcome,        \* how the run ended ("running" until it has)
    runs,           \* the runs started so far
    stored,         \* per reference, the identifier a run stored last (<<>>: none)
    expected,       \* stored[youtube_url] when this run looked the cache up
    param_entries,  \* the entries handed to filter_videos
    criteria,       \* filter_by, filter_value, after_date, before_date
    videos,         \* what filter_videos returned or raised
    fetches,        \* the calls of the two fetch functions in this run, by caller
    rss_feed_url,   \* the URL handed to fetch_rss_feed_content in this run
    file_before     \* the cache file when this run started

extractVars == <<source_code, channel_id>>
cacheVars == <<file, clock>>
callVars == <<op, ret, file0>>
raceVars == <<proc, lastSaver>>
fetchVars == <<retry, fetched, printed, requests>>
runVars == <<args, outcome, runs, stored, expected>>
filterVars == <<param_entries, criteria, videos>>
historyVars == <<fetches, rss_feed_url, file_before>>
vars == <<pc, source_code, channel_id, file, clock, op, ret, file0, proc, lastSaver,
          retry, fetched, printed, requests, args, outcome, runs, stored, expected,
          param_entries, criteria, videos, fetches, rss_feed_url, file_before>>

----------------------------------------------------------------------------
(* Text and the regular expressions of get_youtube_channel_id *)

ChannelPath == "/channel/"
HandlePath == "/@"
ChannelIdKey == "\"channel_id\":\""
ChannelIdKey2 == "\"channelId\":\""
Quote == "\""

\* [UC]
UorC == {"U", "C"}
\* [a-zA-Z0-9_-]
URLSafe == {"U", "C", "a", "b"}

\* the symbols whose first character is a double quote
StartsWithQuote(sym) == sym \in {Quote, ChannelIdKey, ChannelIdKey2}

Min(S) == CHOOSE m \in S : \A n \in S : m <= n

\* the first index after the run of [a-zA-Z0-9_-] characters that starts at i
RECURSIVE RunEnd(_, _)
RunEnd(s, i) ==
    IF i <= Len(s) /\ s[i] \in URLSafe THEN RunEnd(s, i + 1) ELSE i

\* lit([UC][a-zA-Z0-9_-]+) matches at i, followed by a double quote if closed
MatchAt(s, i, lit, closed) ==
    /\ i + 2 <= Len(s)
    /\ s[i] = lit
    /\ s[i + 1] \in UorC
    /\ s[i + 2] \in URLSafe
    /\ closed => /\ RunEnd(s, i + 2) <= Len(s)
                 /\ StartsWithQuote(s[RunEnd(s, i + 2)])

\* group(1) of the match at i
Group(s, i) == SubSeq(s, i + 1, RunEnd(s, i + 2) - 1)

NoMatch == [matched |-> FALSE, group |-> <<>>]

\* re.search: the leftmost match
re_search(s, lit, closed) ==
    LET hits == {i \in 1..Len(s) : MatchAt(s, i, lit, closed)}
    IN  IF hits = {} THEN NoMatch
        ELSE [matched |-> TRUE, group |-> Group(s, Min(hits))]

\* re.search(r"/@([a-zA-Z0-9_-]+)", og_url)
handle_match(s) ==
    \E i \in 1..Len(s) : /\ s[i] = HandlePath
                         /\ i + 1 <= Len(s)
                         /\ s[i + 1] \in URLSafe

----------------------------------------------------------------------------
(* Results of a call: a value, None, or an exception that leaves the function *)

Returned(v) == [kind |-> "value", val |-> v, exc |-> "none"]
None == [kind |-> "None", val |-> <<>>, exc |-> "none"]
Raised(e) == [kind |-> "raise", val |-> <<>>, exc |-> e]

\* a truth test that takes the empty string for true
Truthy_NotNone(v) == v.kind = "value"

\* Python's truth test of a str, bytes or list that may be None
Truthy(v) == v.kind = "value" /\ v.val # <<>>

----------------------------------------------------------------------------
(* The cache file *)

\* the channel references (URLs) used as cache keys
Refs == {"r1", "r2"}

\* identifiers found in cache records; <<>> is the empty string
CacheIds == { <<"U", "C", "a">>, <<"U", "C", "b">>, <<>> }

MaxClock == 3

\* a record of the JSON object: none for the key, a bare string (legacy), or
\* {"channel_id": ..., "timestamp": ...}
Absent == [shape |-> "absent", channel_id |-> <<>>, timestamp |-> 0]
Legacy(id) == [shape |-> "str", channel_id |-> id, timestamp |-> 0]
Structured(id, ts) == [shape |-> "dict", channel_id |-> id, timestamp |-> ts]

EmptyMap == [r \in Refs |-> Absent]

\* The file is one of:
\*   nodir        ~/.youtuberss does not exist and cannot be created
\*   absent       no cache.json
\*   unreadable   cache.json exists and open() raises IOError
\*   undecodable  its bytes are not UTF-8
\*   empty        zero bytes
\*   malformed    text that is not JSON
\*   nonobject    JSON whose top-level value is a list, string, number or null
\*   object       a JSON object, map
\* readonly: open(cache_file, "w") raises IOError.
File(state, map, readonly) == [state |-> state, map |-> map, readonly |-> readonly]

\* get_cache_file_path: the path, or the exception of mkdir
get_cache_file_path(f) ==
    IF f.state = "nodir" THEN Raised("OSError") ELSE Returned(<<>>)

\* a loaded cache: a dict, or a JSON value that is no dict
Dict(map) == [kind |-> "value", isDict |-> TRUE, map |-> map, exc |-> "none"]
NonDict == [kind |-> "value", isDict |-> FALSE, map |-> EmptyMap, exc |-> "none"]
LoadRaised(e) == [kind |-> "raise", isDict |-> FALSE, map |-> EmptyMap, exc |-> e]

load_cache(f) ==
    IF get_cache_file_path(f).kind = "raise"
    THEN LoadRaised(get_cache_file_path(f).exc)
    ELSE CASE f.state = "absent" -> Dict(EmptyMap)
           [] f.state \in {"unreadable", "empty", "malformed"} -> Dict(EmptyMap)
           [] f.state = "undecodable" -> LoadRaised("UnicodeDecodeError")
           [] f.state = "nonobject" -> NonDict
           [] f.state = "object" -> Dict(f.map)

\* a save that keeps the records on disk that the saved map lacks
save_cache_Merging(f, cache) ==
    IF get_cache_file_path(f).kind = "raise"
    THEN [file |-> f, res |-> Raised(get_cache_file_path(f).exc), warned |-> FALSE]
    ELSE IF f.readonly \/ f.state = "unreadable"
    THEN [file |-> f, res |-> None, warned |-> TRUE]
    ELSE [file |-> File("object",
                        [r \in Refs |-> IF cache[r] = Absent /\ f.state = "object"
                                        THEN f.map[r] ELSE cache[r]],
                        FALSE),
          res |-> None, warned |-> FALSE]

\* save_cache: the file afterwards and how the call ended
save_cache(f, cache) ==
    IF get_cache_file_path(f).kind = "raise"
    THEN [file |-> f, res |-> Raised(get_cache_file_path(f).exc), warned |-> FALSE]
    ELSE IF f.readonly \/ f.state = "unreadable"
    THEN [file |-> f, res |-> None, warned |-> TRUE]
    ELSE [file |-> File("object", cache, FALSE), res |-> None, warned |-> FALSE]

\* a lookup that knows the structured record only
get_cached_channel_id_StructuredOnly(f, url, use_cache) ==
    IF ~use_cache THEN None
    ELSE LET cache == load_cache(f)
         IN  IF cache.kind = "raise" THEN Raised(cache.exc)
             ELSE IF ~cache.isDict THEN Raised("AttributeError")
             ELSE IF cache.map[url].shape = "dict"
                  THEN Returned(cache.map[url].channel_id)
                  ELSE None

\* a lookup with the test of use_cache inverted
get_cached_channel_id_Inverted(f, url, use_cache) ==
    IF use_cache THEN None
    ELSE get_cached_channel_id_StructuredOnly(f, url, TRUE)

\* a lookup that reads the file whatever use_cache is
get_cached_channel_id_NoBypass(f, url, use_cache) ==
    LET cache == load_cache(f)
    IN  IF cache.kind = "raise" THEN Raised(cache.exc)
        ELSE IF ~cache.isDict THEN Raised("AttributeError")
        ELSE LET cache_entry == cache.map[url]
             IN  IF cache_entry.shape = "absent" THEN None
                 ELSE IF cache_entry.shape = "dict"
                      THEN Returned(cache_entry.channel_id)
                 ELSE IF cache_entry.channel_id = <<>> THEN None
                 ELSE Returned(cache_entry.channel_id)

get_cached_channel_id(f, url, use_cache) ==
    IF ~use_cache THEN None
    ELSE LET cache == load_cache(f)
         IN  IF cache.kind = "raise" THEN Raised(cache.exc)
             ELSE IF ~cache.isDict THEN Raised("AttributeError")   \* cache.get
             ELSE LET cache_entry == cache.map[url]
                  IN  IF cache_entry.shape = "absent" THEN None
                      ELSE IF cache_entry.shape = "dict"
                           THEN Returned(cache_entry.channel_id)
                      ELSE IF cache_entry.channel_id = <<>> THEN None
                      ELSE Returned(cache_entry.channel_id)

\* a store that writes only its own record
cache_channel_id_OwnRecordOnly(f, url, id, now) ==
    save_cache(f, [EmptyMap EXCEPT ![url] = Structured(id, now)])

\* a store that loads the map and does not save it
cache_channel_id_Unsaved(f, url, id, now) ==
    LET cache == load_cache(f)
    IN  IF cache.kind = "raise"
        THEN [file |-> f, res |-> Raised(cache.exc), warned |-> FALSE]
        ELSE [file |-> f, res |-> None, warned |-> FALSE]

cache_channel_id(f, url, id, now) ==
    LET cache == load_cache(f)
    IN  IF cache.kind = "raise"
        THEN [file |-> f, res |-> Raised(cache.exc), warned |-> FALSE]
        ELSE IF ~cache.isDict
        THEN [file |-> f, res |-> Raised("TypeError"), warned |-> FALSE]
        ELSE save_cache(f, [cache.map EXCEPT ![url] = Structured(id, now)])

\* clear_cache: the file afterwards, and whether it reported a file cleared
clear_cache(f) ==
    IF get_cache_file_path(f).kind = "raise"
    THEN [file |-> f, res |-> Raised(get_cache_file_path(f).exc), cleared |-> FALSE]
    ELSE IF f.state # "absent"
    THEN [file |-> File("absent", EmptyMap, FALSE), res |-> None, cleared |-> TRUE]
    ELSE [file |-> f, res |-> None, cleared |-> FALSE]

----------------------------------------------------------------------------
(* get_youtube_channel_id *)

\* soup.find("meta", property="og:url"): no such tag, a tag without a content
\* attribute, or a tag with one
NoMeta == [present |-> FALSE, hasContent |-> FALSE, content |-> <<>>]
MetaNoContent == [present |-> TRUE, hasContent |-> FALSE, content |-> <<>>]
Meta(c) == [present |-> TRUE, hasContent |-> TRUE, content |-> c]

\* the positions of s where "channel_id":"..." or "channelId":"..." matches
Hits(s, key) == {i \in 1..Len(s) : MatchAt(s, i, key, TRUE)}
AnyHits(s) == Hits(s, ChannelIdKey) \cup Hits(s, ChannelIdKey2)

\* a scan that returns the textually first occurrence of either pattern
RECURSIVE ScanScriptsTextual(_, _)
ScanScriptsTextual(scripts, k) ==
    IF k > Len(scripts) THEN None
    ELSE IF AnyHits(scripts[k]) # {}
         THEN Returned(Group(scripts[k], Min(AnyHits(scripts[k]))))
         ELSE ScanScriptsTextual(scripts, k + 1)

\* Method 2: the script tags in document order; in each, channel_id first
RECURSIVE ScanScripts(_, _)
ScanScripts(scripts, k) ==
    IF k > Len(scripts) THEN None
    ELSE LET m1 == re_search(scripts[k], ChannelIdKey, TRUE)
             m2 == re_search(scripts[k], ChannelIdKey2, TRUE)
         IN  IF m1.matched THEN Returned(m1.group)
             ELSE IF m2.matched THEN Returned(m2.group)
             ELSE ScanScripts(scripts, k + 1)

get_youtube_channel_id(html) ==
    IF html.isNone THEN None
    ELSE IF html.meta.present /\ ~html.meta.hasContent
         THEN Raised("TypeError")      \* re.search(pattern, None)
    ELSE LET m == IF html.meta.present
                  THEN re_search(html.meta.content, ChannelPath, FALSE)
                  ELSE NoMatch
         IN  IF m.matched THEN Returned(m.group)
             ELSE ScanScripts(html.scripts, 1)

----------------------------------------------------------------------------
(* Page documents *)

MaxScripts == 2
MaxItems == 2

\* candidate identifiers: with the UC prefix, with a one-character prefix only,
\* too short, not starting with U or C, and holding a character outside the class
Candidates ==
    { <<"U", "C", "a">>, <<"C", "a">>, <<"U">>, <<"a", "C">>,
      <<"U", "C", "a", "?", "b">> }

\* one "key":"candidate" occurrence of a script payload
Items == { <<k>> \o c \o <<Quote>> : k \in {ChannelIdKey, ChannelIdKey2},
                                      c \in Candidates }

\* the items of its that at places in payload k, concatenated
RECURSIVE Payload(_, _, _)
Payload(its, at, k) ==
    IF its = <<>> THEN <<>>
    ELSE (IF Head(at) = k THEN Head(its) ELSE <<>>)
         \o Payload(Tail(its), Tail(at), k)

\* n script payloads holding the items its, item j in payload at[j]
Scripts(its, n, at) == [k \in 1..n |-> Payload(its, at, k)]

Monotone(m, n) ==
    { f \in [1..m -> 1..n] : \A i, j \in 1..m : i <= j => f[i] <= f[j] }

ScriptListsFor(m, n) ==
    { Scripts(its, n, at) : its \in [1..m -> Items], at \in Monotone(m, n) }

ScriptLists ==
    UNION { ScriptListsFor(m, n) : m \in 0..MaxItems, n \in 0..MaxScripts }

\* the content attribute of the og:url meta tag
OgContents ==
    { <<>>, <<"?">>,
      <<HandlePath, "a", ChannelPath, "U", "C", "a">>,
      <<ChannelPath, "a", ChannelPath, "U", "C", "b">> }
    \cup { <<p>> \o c : p \in {ChannelPath, HandlePath}, c \in Candidates }

Metas == {NoMeta, MetaNoContent} \cup { Meta(c) : c \in OgContents }

\* get_youtube_source_code's result: None, or the bytes of the page
NoSource == [isNone |-> TRUE, empty |-> FALSE, meta |-> NoMeta, scripts |-> <<>>]
EmptyBody == [isNone |-> FALSE, empty |-> TRUE, meta |-> NoMeta, scripts |-> <<>>]
Page(meta, scripts) ==
    [isNone |-> FALSE, empty |-> FALSE, meta |-> meta, scripts |-> scripts]

Pages == { Page(m, ss) : m \in Metas, ss \in ScriptLists }

----------------------------------------------------------------------------
(* Feed entries and filter_videos.  A string is a sequence of symbols: the  *)
(* characters "A", "B", "a", "b", "?", a calendar date written %Y-%m-%d     *)
(* (one of DateText) or a time of day with its offset (one of TimeText).    *)

\* the dates written in DateText, in calendar order: DateText[d] is day d
DateText == <<"2023-01-01", "2023-06-30", "2023-07-01">>
Days == 1..Len(DateText)

\* T%H:%M:%S%z
TimeText == {"T00:00:00+00:00", "T23:59:59+00:00"}

\* datetime.strptime(s, "%Y-%m-%d").date(): the day, or ValueError
strptime_date(s) ==
    IF Len(s) = 1 /\ \E d \in Days : DateText[d] = s[1]
    THEN [kind |-> "value", day |-> CHOOSE d \in Days : DateText[d] = s[1]]
    ELSE [kind |-> "raise", day |-> 0]

\* datetime.strptime(s, "%Y-%m-%dT%H:%M:%S%z").date(): the day of the
\* timestamp in its own offset, or ValueError
strptime_published(s) ==
    IF Len(s) = 2 /\ s[2] \in TimeText THEN strptime_date(<<s[1]>>)
    ELSE [kind |-> "raise", day |-> 0]

\* a lower that leaves the case as it is
lower_Identity(s) == s

\* str.lower
lower(s) ==
    [i \in 1..Len(s) |-> CASE s[i] = "A" -> "a" [] s[i] = "B" -> "b" [] OTHER -> s[i]]

\* needle in hay
Contains(needle, hay) ==
    \E i \in 0..(Len(hay) - Len(needle)) : SubSeq(hay, i + 1, i + Len(needle)) = needle

\* an entry element: the text of its title and published elements and the
\* href of its link element
Entry(title, published, link) ==
    [title |-> title, published |-> published, link |-> link]

\* the arguments of filter_videos after param_entries; a value is None or
\* Returned(string)
Criteria(filter_by, filter_value, after_date, before_date) ==
    [filter_by |-> filter_by, filter_value |-> filter_value,
     after_date |-> after_date, before_date |-> before_date]

\* the date bound of lines 351-352: no bound for None and for ""
date_bound(arg) ==
    IF Truthy(arg) THEN strptime_date(arg.val) ELSE [kind |-> "None", day |-> 0]

\* lines 354-378, from entry k on, with the videos appended so far
RECURSIVE filter_loop(_, _, _, _, _, _)
filter_loop(entries, k, c, after_dt, before_dt, filtered_videos) ==
    IF k > Len(entries) THEN Returned(filtered_videos)
    ELSE LET entry == entries[k]
             entry_date == strptime_published(entry.published)
             skip == filter_loop(entries, k + 1, c, after_dt, before_dt, filtered_videos)
             keep == filter_loop(entries, k + 1, c, after_dt, before_dt,
                                 Append(filtered_videos,
                                        [title |-> entry.title,
                                         published |-> entry.published,
                                         link |-> entry.link]))
         IN  IF entry_date.kind = "raise" THEN Raised("ValueError")
             ELSE IF after_dt.kind = "value" /\ entry_date.day < after_dt.day THEN skip
             ELSE IF before_dt.kind = "value" /\ entry_date.day > before_dt.day THEN skip
             ELSE IF c.filter_by = "date" /\ c.filter_value.kind = "None"
                  THEN Raised("TypeError")
             ELSE IF c.filter_by = "date"
                     /\ strptime_date(c.filter_value.val).kind = "raise"
                  THEN Raised("ValueError")
             ELSE IF c.filter_by = "date"
                     /\ entry_date.day # strptime_date(c.filter_value.val).day
                  THEN skip
             ELSE IF c.filter_by = "title" /\ c.filter_value.kind = "None"
                  THEN Raised("AttributeError")
             ELSE IF c.filter_by = "title"
                     /\ ~Contains(lower(c.filter_value.val), lower(entry.title))
                  THEN skip
             ELSE keep

\* a filter that parses the before bound and does not apply it
filter_videos_AfterOnly(entries, c) ==
    LET after_dt == date_bound(c.after_date)
        before_dt == date_bound(c.before_date)
    IN  IF after_dt.kind = "raise" \/ before_dt.kind = "raise"
        THEN Raised("ValueError")
        ELSE filter_loop(entries, 1, c, after_dt, [kind |-> "None", day |-> 0], <<>>)

filter_videos(entries, c) ==
    LET after_dt == date_bound(c.after_date)
        before_dt == date_bound(c.before_date)
    IN  IF after_dt.kind = "raise" \/ before_dt.kind = "raise"
        THEN Raised("ValueError")
        ELSE filter_loop(entries, 1, c, after_dt, before_dt, <<>>)

----------------------------------------------------------------------------
(* retry_request and the two functions that call it *)

\* the defaults of retry_request
DefaultMaxRetries == 3
DefaultBackoffFactor == 2

RECURSIVE Pow(_, _)
Pow(b, e) == IF e <= 0 THEN 1 ELSE b * Pow(b, e - 1)

\* what one call of the wrapped function (requests.get, raise_for_status) does
Transient == {"Timeout", "ConnectionError"}
StatusErrors == {"HTTPError404", "HTTPError429", "HTTPError500"}
OtherErrors == {"RequestException"}

\* a feed document: its entry elements in document order, which is not the
\* order of their publish dates
FeedDoc ==
    << Entry(<<"A", "b">>, <<DateText[2], "T23:59:59+00:00">>, "https://www.youtube.com/watch?v=1"),
       Entry(<<"B">>, <<DateText[3], "T00:00:00+00:00">>, "https://www.youtube.com/watch?v=2"),
       Entry(<<"A", "b">>, <<DateText[1], "T00:00:00+00:00">>, "https://www.youtube.com/watch?v=3") >>

\* the feed documents: FeedDoc cut after its first n entries
FeedBodies == { SubSeq(FeedDoc, 1, n) : n \in 0..Len(FeedDoc) }

\* the page documents a fetch can return
FetchPages ==
    { EmptyBody,
      Page(NoMeta, <<>>),
      Page(MetaNoContent, <<>>),
      Page(Meta(<<ChannelPath, "U", "C", "a">>), <<>>),
      Page(Meta(<<HandlePath, "a">>), << <<ChannelIdKey, "U", "C", "b", Quote>> >>),
      Page(NoMeta, << <<ChannelIdKey2, "C", "a", Quote>> >>) }

Running == [kind |-> "running", val |-> <<>>, exc |-> "none"]

\* retry_request's frame: its arguments, the loop variable, and a record of
\* the calls made, the transient failures seen, the waits slept and what the
\* wrapped function did last; out is how retry_request ended
NewRetry(caller, max_retries, backoff_factor, limit, lxml) ==
    [caller |-> caller, max_retries |-> max_retries,
     backoff_factor |-> backoff_factor, limit |-> limit, lxml |-> lxml,
     attempt |-> 0, calls |-> 0, transient |-> 0, waits |-> <<>>,
     last |-> Running, out |-> Running]

NoRetry == NewRetry("none", 0, 1, 0, TRUE)

\* the wait before the next attempt
wait_time_Linear(backoff_factor, attempt) == backoff_factor * attempt

wait_time(backoff_factor, attempt) == Pow(backoff_factor, attempt)

\* whether a transient failure of this attempt is retried
may_retry(attempt, max_retries) == attempt < max_retries - 1

InLoop == pc = "retry" /\ retry.out = Running

\* a call made without the test of the loop
RetryReturn_Unguarded(body) ==
    /\ InLoop
    /\ requests' = [requests EXCEPT ![retry.caller] = @ + 1]
    /\ retry' = [retry EXCEPT !.calls = @ + 1,
                              !.last = Returned(body),
                              !.out = Returned(body)]
    /\ UNCHANGED <<pc, fetched, printed, extractVars, cacheVars, callVars, raceVars,
                   filterVars, historyVars, runVars>>

\* the wrapped function returns the body
RetryReturn(body) ==
    /\ InLoop /\ retry.attempt < retry.max_retries
    /\ requests' = [requests EXCEPT ![retry.caller] = @ + 1]
    /\ retry' = [retry EXCEPT !.calls = @ + 1,
                              !.last = Returned(body),
                              !.out = Returned(body)]
    /\ UNCHANGED <<pc, fetched, printed, extractVars, cacheVars, callVars, raceVars, filterVars, historyVars, runVars>>

\* the wrapped function raises Timeout or ConnectionError
RetryTransient(e) ==
    /\ InLoop /\ retry.attempt < retry.max_retries
    /\ requests' = [requests EXCEPT ![retry.caller] = @ + 1]
    /\ retry' =
         IF may_retry(retry.attempt, retry.max_retries)
         THEN [retry EXCEPT !.calls = @ + 1, !.transient = @ + 1,
                            !.last = Raised(e),
                            !.waits = Append(@, wait_time(retry.backoff_factor,
                                                          retry.attempt)),
                            !.attempt = @ + 1]
         ELSE [retry EXCEPT !.calls = @ + 1, !.transient = @ + 1,
                            !.last = Raised(e),
                            !.out = Raised(e)]
    /\ UNCHANGED <<pc, fetched, printed, extractVars, cacheVars, callVars, raceVars, filterVars, historyVars, runVars>>

\* a retry_request that treats every exception as it treats a timeout
RetryError_Retried(e) ==
    /\ InLoop /\ retry.attempt < retry.max_retries
    /\ requests' = [requests EXCEPT ![retry.caller] = @ + 1]
    /\ retry' =
         IF may_retry(retry.attempt, retry.max_retries)
         THEN [retry EXCEPT !.calls = @ + 1, !.last = Raised(e),
                            !.waits = Append(@, wait_time(retry.backoff_factor,
                                                          retry.attempt)),
                            !.attempt = @ + 1]
         ELSE [retry EXCEPT !.calls = @ + 1, !.last = Raised(e),
                            !.out = Raised(e)]
    /\ UNCHANGED <<pc, fetched, printed, extractVars, cacheVars, callVars, raceVars, filterVars, historyVars, runVars>>

\* the wrapped function raises any other exception (HTTPError from
\* raise_for_status, ...): no except clause of retry_request applies
RetryError(e) ==
    /\ InLoop /\ retry.attempt < retry.max_retries
    /\ requests' = [requests EXCEPT ![retry.caller] = @ + 1]
    /\ retry' = [retry EXCEPT !.calls = @ + 1, !.last = Raised(e),
                              !.out = Raised(e)]
    /\ UNCHANGED <<pc, fetched, printed, extractVars, cacheVars, callVars, raceVars, filterVars, historyVars, runVars>>

\* the loop ends without a call having returned or raised: return None
RetryExhausted ==
    /\ InLoop /\ ~(retry.attempt < retry.max_retries)
    /\ retry' = [retry EXCEPT !.out = None]
    /\ UNCHANGED <<requests, pc, fetched, printed, extractVars, cacheVars, callVars, raceVars, filterVars, historyVars, runVars>>

\* entries[:limit]
Slice(entries, limit) ==
    IF limit >= 0
    THEN SubSeq(entries, 1, IF limit < Len(entries) THEN limit ELSE Len(entries))
    ELSE SubSeq(entries, 1, IF Len(entries) + limit > 0 THEN Len(entries) + limit ELSE 0)

\* get_youtube_source_code after retry_request: the value returned and the
\* message printed
get_youtube_source_code(out) ==
    CASE out.kind = "value" -> [res |-> out, msg |-> "none"]
      [] out.kind = "None" -> [res |-> None, msg |-> "none"]
      [] out.exc = "Timeout" -> [res |-> None, msg |-> "page timed out"]
      [] out.exc = "HTTPError404" -> [res |-> None, msg |-> "page not found (404)"]
      [] out.exc \in StatusErrors \ {"HTTPError404"} ->
            [res |-> None, msg |-> "page HTTP error"]
      [] out.exc = "ConnectionError" -> [res |-> None, msg |-> "page connection error"]
      [] OTHER -> [res |-> None, msg |-> "page fetch error"]

\* fetch_rss_feed_content after retry_request
fetch_rss_feed_content(out, limit, lxml) ==
    CASE out.kind = "None" -> [res |-> None, msg |-> "none"]
      [] out.kind = "value" ->
            IF lxml THEN [res |-> Returned(Slice(out.val, limit)), msg |-> "none"]
            ELSE [res |-> None, msg |-> "xml parser missing"]
      [] out.exc = "Timeout" -> [res |-> None, msg |-> "feed timed out"]
      [] out.exc = "HTTPError404" -> [res |-> None, msg |-> "feed not found (404)"]
      [] out.exc = "HTTPError429" -> [res |-> None, msg |-> "feed rate limited (429)"]
      [] out.exc \in StatusErrors \ {"HTTPError404", "HTTPError429"} ->
            [res |-> None, msg |-> "feed HTTP error"]
      [] OTHER -> [res |-> None, msg |-> "feed fetch error"]

\* retry_request has ended: the calling function returns
FetchReturn ==
    /\ pc = "retry" /\ retry.out # Running
    /\ LET r == IF retry.caller = "page"
                THEN get_youtube_source_code(retry.out)
                ELSE fetch_rss_feed_content(retry.out, retry.limit, retry.lxml)
       IN  fetched' = r.res /\ printed' = r.msg
    /\ pc' = "fetched"
    /\ UNCHANGED <<retry, requests, extractVars, cacheVars, callVars, raceVars, filterVars, historyVars, runVars>>

Bodies(caller) == IF caller = "page" THEN FetchPages ELSE FeedBodies

\* one pass of the loop body: a call of the wrapped function
RetryCall ==
    \/ \E body \in Bodies(retry.caller) : RetryReturn(body)
    \/ \E e \in Transient : RetryTransient(e)
    \/ \E e \in StatusErrors \cup OtherErrors : RetryError(e)

RetryStep == RetryCall \/ RetryExhausted

----------------------------------------------------------------------------
\* the parts of the state an operation on its own does not use
NoFile == File("absent", EmptyMap, FALSE)
NoCall == [name |-> "none", url |-> "r1", id |-> <<>>, use_cache |-> FALSE]
IdleCache == file = NoFile /\ clock = 1
IdleCall == op = NoCall /\ ret = None /\ file0 = NoFile
IdleExtract == source_code = NoSource /\ channel_id = None
NoProc == [pc |-> "done", url |-> "r1", id |-> <<>>, cache |-> EmptyMap, saved |-> FALSE]
IdleRace == proc = [p \in {1, 2} |-> NoProc] /\ lastSaver = 0
NoRequests == [page |-> 0, feed |-> 0]
IdleFetch ==
    retry = NoRetry /\ fetched = None /\ printed = "none" /\ requests = NoRequests
NoCriteria == Criteria("None", None, None, None)
NoArgs ==
    [youtube_url |-> "", channel_id |-> <<>>, no_cache |-> FALSE,
     clear_cache |-> FALSE, dry_run |-> FALSE, limit |-> 5,
     criteria |-> NoCriteria]
NothingStored == [r \in Refs |-> <<>>]
IdleRun ==
    /\ args = NoArgs /\ outcome = "running" /\ runs = 0
    /\ stored = NothingStored /\ expected = <<>>
IdleFilter == param_entries = <<>> /\ criteria = NoCriteria /\ videos = None
IdleHistory == fetches = NoRequests /\ rss_feed_url = None /\ file_before = NoFile

----------------------------------------------------------------------------
(* retry_request on its own: any max_retries and backoff_factor *)

MaxAttempts == 4
MaxBackoff == 3
Limits == {-1, 0, 2, 5}

InitRetry ==
    /\ pc = "retry"
    /\ \E caller \in {"page", "feed"}, n \in (-1)..MaxAttempts, b \in 1..MaxBackoff,
          limit \in Limits, lxml \in BOOLEAN :
          retry = NewRetry(caller, n, b, limit, lxml)
    /\ fetched = None /\ printed = "none" /\ requests = NoRequests
    /\ IdleCache /\ IdleCall /\ IdleRace /\ IdleExtract /\ IdleRun
    /\ IdleFilter /\ IdleHistory

NextRetry == RetryStep \/ FetchReturn

SpecRetry == InitRetry /\ [][NextRetry]_vars

\* each call of the wrapped function ends (requests.get has timeout=10), each
\* time.sleep ends, and the code between them runs on
SpecRetryLive == SpecRetry /\ WF_vars(NextRetry)

----------------------------------------------------------------------------
(* Claims about retry_request (SpecRetry) *)

\* the waits b^0, b^1, ..., b^(j-1)
Backoffs(b, j) == [k \in 1..j |-> Pow(b, k - 1)]

C14_FirstMinLimit ==
    (pc = "fetched" /\ retry.caller = "feed" /\ fetched.kind = "value") =>
        LET doc == retry.out.val
            n == Len(doc)
            m == IF retry.limit < n THEN retry.limit ELSE n
        IN  /\ Len(fetched.val) = m
            /\ \A k \in 1..Len(fetched.val) : fetched.val[k] = doc[k]
            /\ Len(fetched.val) <= retry.limit

\* C21: retry_request always terminates and never calls the wrapped function
\* more than max_retries times, for every max_retries and every pattern of
\* transient failures; with max_retries <= 0 it makes no call and returns
\* None, neither a body nor an error, and the page and feed fetch functions
\* return None for it, as for a failed fetch.
C21_TerminatesWithinMaxRetries ==
    /\ [](LET n == IF retry.max_retries > 0 THEN retry.max_retries ELSE 0
          IN  /\ retry.calls <= n
              /\ requests.page + requests.feed <= n
              /\ retry.attempt <= n
              /\ retry.max_retries <= 0 =>
                    /\ retry.calls = 0 /\ retry.last = Running
                    /\ retry.out \in {Running, None}
                    /\ pc = "fetched" => retry.out = None /\ fetched = None)
    /\ <>(pc = "fetched" /\ retry.out # Running)

\* retry_request with max_retries = 0 has returned None without a call
C21_Witness ==
    /\ pc = "fetched" /\ retry.max_retries = 0
    /\ retry.calls = 0 /\ requests = NoRequests
    /\ retry.out = None /\ fetched = None

----------------------------------------------------------------------------
(* The extraction on its own: every page document of Pages, then one call *)

InitExtract ==
    /\ pc = "extract"
    /\ source_code \in Pages \cup {EmptyBody, NoSource}
    /\ channel_id = None
    /\ IdleCache /\ IdleCall /\ IdleRace /\ IdleFetch /\ IdleRun
    /\ IdleFilter /\ IdleHistory

Extract ==
    /\ pc = "extract"
    /\ channel_id' = get_youtube_channel_id(source_code)
    /\ pc' = "extracted"
    /\ UNCHANGED <<source_code, cacheVars, callVars, raceVars, filterVars, historyVars, fetchVars, runVars>>

NextExtract == Extract

SpecExtract == InitExtract /\ [][NextExtract]_vars

----------------------------------------------------------------------------
(* Claims about the extraction (SpecExtract) *)

\* the /channel/ match of the canonical field, if the field has a value
OgMatch(html) ==
    IF html.meta.present /\ html.meta.hasContent
    THEN re_search(html.meta.content, ChannelPath, FALSE)
    ELSE NoMatch

\* the canonical field holds a handle path and no /channel/ identifier
HandleOnly(html) ==
    /\ html.meta.present /\ html.meta.hasContent
    /\ handle_match(html.meta.content)
    /\ ~OgMatch(html).matched

\* some script payload holds an occurrence of either pattern
ScriptMatches(html) == \E k \in 1..Len(html.scripts) : AnyHits(html.scripts[k]) # {}

Extracted == pc = "extracted" /\ ~source_code.isNone

\* C8: for every page document the strategies apply in fixed order: a
\* /channel/<identifier> in the canonical field is returned whatever the
\* scripts hold; with the field missing or holding only a handle path the
\* result is the script-payload match; with no match at all it is NotFound.
C8_StrategyOrder ==
    Extracted =>
        /\ OgMatch(source_code).matched
              => channel_id = Returned(OgMatch(source_code).group)
        /\ (~source_code.meta.present \/ HandleOnly(source_code))
              => channel_id = ScanScripts(source_code.scripts, 1)
        /\ (~OgMatch(source_code).matched /\ ~ScriptMatches(source_code))
              => channel_id = None

\* the first script payload, in document order, holding either pattern
FirstScript(html) ==
    Min({k \in 1..Len(html.scripts) : AnyHits(html.scripts[k]) # {}})

\* the script scan is reached and returns
ScanReached ==
    /\ Extracted
    /\ ~(source_code.meta.present /\ ~source_code.meta.hasContent)
    /\ ~OgMatch(source_code).matched

\* C9 as stated: the script scan returns the textually first occurrence, in
\* document order over all script payloads, of either pattern, also when a
\* channelId occurrence precedes a channel_id occurrence in one payload.
C9_TextuallyFirst ==
    (ScanReached /\ ScriptMatches(source_code)) =>
        LET s == source_code.scripts[FirstScript(source_code)]
        IN  channel_id = Returned(Group(s, Min(AnyHits(s))))

\* C9 as amended: the script scan returns from the first script payload, in
\* document order, that holds either pattern; inside that payload the first
\* channel_id occurrence if there is one, else the first channelId occurrence;
\* with no occurrence in any payload it returns None.
C9_FirstScriptChannelIdFirst ==
    ScanReached =>
        IF ~ScriptMatches(source_code) THEN channel_id = None
        ELSE LET s == source_code.scripts[FirstScript(source_code)]
                 h1 == Hits(s, ChannelIdKey)
                 h2 == Hits(s, ChannelIdKey2)
             IN  channel_id = Returned(Group(s, IF h1 # {} THEN Min(h1) ELSE Min(h2)))

\* a payload where a channelId occurrence precedes a channel_id occurrence,
\* reached by the scan, which returned the channel_id one
C9_Witness ==
    /\ ScanReached /\ ScriptMatches(source_code)
    /\ LET s == source_code.scripts[FirstScript(source_code)]
       IN  /\ Hits(s, ChannelIdKey) # {} /\ Hits(s, ChannelIdKey2) # {}
           /\ Min(Hits(s, ChannelIdKey2)) < Min(Hits(s, ChannelIdKey))
           /\ channel_id = Returned(Group(s, Min(Hits(s, ChannelIdKey))))
           /\ channel_id # Returned(Group(s, Min(Hits(s, ChannelIdKey2))))

\* the identifier shape with the full prefix: UC, then one or more
\* characters of [a-zA-Z0-9_-]
HasUCPrefix(v) ==
    /\ Len(v) >= 3
    /\ v[1] = "U" /\ v[2] = "C"
    /\ \A i \in 3..Len(v) : v[i] \in URLSafe

\* C10: every identifier the extraction returns, from the canonical field or
\* from a script payload, is UC followed by one or more URL-safe characters.
C10_FullPrefix ==
    (pc = "extracted" /\ channel_id.kind = "value") => HasUCPrefix(channel_id.val)

----------------------------------------------------------------------------
(* The cache store on its own: any file, then lookups, stores and clears *)

\* the records a file may hold at the start
InitEntries ==
    {Absent} \cup { Legacy(id) : id \in CacheIds }
             \cup { Structured(id, 0) : id \in CacheIds }

InitFiles ==
    { File(st, EmptyMap, ro) :
        st \in {"absent", "unreadable", "undecodable", "empty", "malformed",
                "nonobject"},
        ro \in BOOLEAN }
    \cup { File("object", m, ro) : m \in [Refs -> InitEntries], ro \in BOOLEAN }
    \cup { File("nodir", EmptyMap, TRUE) }

\* the identifiers a caller stores: what get_youtube_channel_id can return
StoreIds == { <<"U", "C", "a">>, <<"U", "C", "b">>, <<"C", "a">> }

InitCache ==
    /\ pc = "cache"
    /\ file \in InitFiles
    /\ clock = 1
    /\ IdleCall /\ IdleExtract /\ IdleRace /\ IdleFetch /\ IdleRun
    /\ IdleFilter /\ IdleHistory

Lookup(url, use_cache) ==
    /\ pc = "cache"
    /\ op' = [name |-> "lookup", url |-> url, id |-> <<>>, use_cache |-> use_cache]
    /\ ret' = get_cached_channel_id(file, url, use_cache)
    /\ file0' = file
    /\ UNCHANGED <<pc, file, clock, extractVars, raceVars, filterVars, historyVars, fetchVars, runVars>>

Store(url, id) ==
    /\ pc = "cache"
    /\ clock < MaxClock
    /\ op' = [name |-> "store", url |-> url, id |-> id, use_cache |-> TRUE]
    /\ ret' = cache_channel_id(file, url, id, clock).res
    /\ file' = cache_channel_id(file, url, id, clock).file
    /\ file0' = file
    /\ clock' = clock + 1
    /\ UNCHANGED <<pc, extractVars, raceVars, filterVars, historyVars, fetchVars, runVars>>

Clear ==
    /\ pc = "cache"
    /\ op' = [name |-> "clear", url |-> "r1", id |-> <<>>,
              use_cache |-> clear_cache(file).cleared]
    /\ ret' = clear_cache(file).res
    /\ file' = clear_cache(file).file
    /\ file0' = file
    /\ UNCHANGED <<pc, clock, extractVars, raceVars, filterVars, historyVars, fetchVars, runVars>>

NextCache ==
    \/ \E url \in Refs, use_cache \in BOOLEAN : Lookup(url, use_cache)
    \/ \E url \in Refs, id \in StoreIds : Store(url, id)
    \/ Clear

SpecCache == InitCache /\ [][NextCache]_vars

----------------------------------------------------------------------------
(* Claims about the cache store (SpecCache) *)

\* the file f with the record of url replaced by e
WithRecord(f, url, e) == [f EXCEPT !.map[url] = e]

\* C4: whatever the state of the backing file (absent, empty, malformed
\* JSON, unreadable, or JSON whose top-level value is not an object), lookup
\* returns absent, as for an empty cache, and raises nothing.
C4_LookupFailsOpen ==
    (/\ op.name = "lookup"
     /\ file0.state \in {"absent", "empty", "malformed", "unreadable", "nonobject"})
        => ret = None

\* C5: for a reference whose record holds the identifier id, lookup returns
\* the plain identifier id, and returns the same for the legacy bare string
\* id as for the structured record with identifier field id.
C5_LegacyTransparent ==
    (/\ op.name = "lookup" /\ op.use_cache
     /\ file0.state = "object"
     /\ file0.map[op.url].shape \in {"str", "dict"}
     /\ file0.map[op.url].channel_id # <<>>)
        => LET id == file0.map[op.url].channel_id
           IN  /\ ret = Returned(id)
               /\ \A ts \in 0..MaxClock :
                     /\ get_cached_channel_id(
                            WithRecord(file0, op.url, Legacy(id)), op.url, TRUE)
                          = Returned(id)
                     /\ get_cached_channel_id(
                            WithRecord(file0, op.url, Structured(id, ts)), op.url, TRUE)
                          = Returned(id)

\* a lookup of a legacy record returned its identifier
C5_Witness ==
    /\ op.name = "lookup" /\ op.use_cache
    /\ file0.state = "object"
    /\ file0.map[op.url] = Legacy(<<"U", "C", "a">>)
    /\ ret = Returned(<<"U", "C", "a">>)

\* store changed the record of its reference and no other
StoredOnly(url) ==
    /\ file.state = "object"
    /\ get_cached_channel_id(file, url, TRUE) = Returned(op.id)
    /\ \A r \in Refs \ {url} : file.map[r] = file0.map[r]

\* C6 as stated: store(r, id) on a readable backing map changes only the
\* record of r: afterwards lookup(r) = id and every other record persists
\* unchanged.
C6_StoreChangesOneKey ==
    (op.name = "store" /\ file0.state = "object") => StoredOnly(op.url)

\* C6 as amended: store(r, id) on a readable backing map that can be written
\* changes only the record of r (lookup(r) = id, the record is the structured
\* one with the current timestamp, every other record persists unchanged);
\* when the file cannot be written the store only warns and the file stays
\* as it was.
C6_StoreChangesOneKeyIfWritable ==
    (op.name = "store" /\ file0.state = "object") =>
        IF file0.readonly THEN file = file0 /\ ret = None
        ELSE /\ StoredOnly(op.url)
             /\ file.map[op.url].shape = "dict"
             /\ file.map[op.url].timestamp = clock - 1
             /\ ret = None

\* a store into a map that holds a record for the other reference
C6_Witness ==
    /\ op.name = "store" /\ file0.state = "object" /\ ~file0.readonly
    /\ \E r \in Refs \ {op.url} : file0.map[r].shape \in {"str", "dict"}
    /\ file0.map[op.url] # file.map[op.url]
    /\ StoredOnly(op.url)

\* C18: clear removes the whole backing store and reports whether one
\* existed: after it, the lookup of every reference returns absent until the
\* next store; on an absent store it changes nothing and reports that no
\* store existed.
C18_ClearRemovesStore ==
    /\ op.name = "clear" =>
          /\ ret = None
          /\ file.state = "absent"
          /\ \A r \in Refs : get_cached_channel_id(file, r, TRUE) = None
          /\ op.use_cache <=> file0.state \notin {"absent", "nodir"}
          /\ file0.state \in {"absent", "nodir"} => file = file0
    /\ (op.name = "lookup" /\ file0.state = "absent") => ret = None /\ file = file0

----------------------------------------------------------------------------
(* Two processes in cache_channel_id on the same file.  Each loads the     *)
(* whole map and builds its record (lines 123-127), then saves the whole   *)
(* map (line 128); the file is not locked across the two steps.            *)

Procs == {1, 2}

InitRace ==
    /\ pc = "race"
    /\ file \in InitFiles
    /\ clock = 1
    /\ \E u \in [Procs -> Refs], i \in [Procs -> StoreIds] :
          /\ u[1] # u[2]
          /\ proc = [p \in Procs |->
                       [pc |-> "load", url |-> u[p], id |-> i[p],
                        cache |-> EmptyMap, saved |-> FALSE]]
    /\ lastSaver = 0
    /\ IdleCall /\ IdleExtract /\ IdleFetch /\ IdleRun
    /\ IdleFilter /\ IdleHistory

\* cache = load_cache(); cache[url] = {...}
RaceLoad(p) ==
    /\ pc = "race" /\ proc[p].pc = "load"
    /\ clock < MaxClock
    /\ LET cache == load_cache(file)
       IN  proc' = [proc EXCEPT ![p] =
                IF cache.kind = "raise" \/ ~cache.isDict
                THEN [@ EXCEPT !.pc = "raised"]
                ELSE [@ EXCEPT !.pc = "save",
                               !.cache = [cache.map EXCEPT
                                   ![proc[p].url] = Structured(proc[p].id, clock)]]]
    /\ clock' = clock + 1
    /\ UNCHANGED <<pc, file, lastSaver, callVars, extractVars, fetchVars, runVars, filterVars, historyVars>>

\* save_cache(cache)
RaceSave(p) ==
    /\ pc = "race" /\ proc[p].pc = "save"
    /\ LET r == save_cache(file, proc[p].cache)
           ok == r.res = None /\ ~r.warned
       IN  /\ file' = r.file
           /\ proc' = [proc EXCEPT ![p] = [@ EXCEPT !.pc = "done", !.saved = ok]]
           /\ lastSaver' = IF ok THEN p ELSE lastSaver
    /\ UNCHANGED <<pc, clock, callVars, extractVars, fetchVars, runVars, filterVars, historyVars>>

NextRace == \E p \in Procs : RaceLoad(p) \/ RaceSave(p)

SpecRace == InitRace /\ [][NextRace]_vars

RaceOver == \A p \in Procs : proc[p].pc \in {"done", "raised"}

\* C7: when two processes store different references concurrently, each as
\* a load of the whole map and a later save of the whole map, the final file
\* is in every interleaving the full map written by the process that saved
\* last (C7_LostUpdate: in some interleaving it lacks the other's record).
C7_LastWriterWins ==
    (pc = "race" /\ RaceOver /\ lastSaver # 0) =>
        file = File("object", proc[lastSaver].cache, FALSE)

\* both processes saved, and the file lacks the record one of them wrote
C7_LostUpdate ==
    /\ pc = "race" /\ RaceOver
    /\ \A p \in Procs : proc[p].saved
    /\ \E p \in Procs :
          /\ proc[p].cache[proc[p].url].shape = "dict"
          /\ file.map[proc[p].url] = Absent
          /\ get_cached_channel_id(file, proc[p].url, TRUE) = None

----------------------------------------------------------------------------
(* filter_videos on its own: any entry list and any criteria, then one call *)

MaxEntries == 2

Titles == { <<"A", "b">>, <<"B">> }

\* published texts: three timestamps, and a date with no time of day
Timestamps ==
    { <<DateText[1], "T00:00:00+00:00">>, <<DateText[2], "T23:59:59+00:00">>,
      <<DateText[3], "T00:00:00+00:00">> }
Publisheds == Timestamps \cup { <<DateText[2]>> }

Entries == { Entry(t, p, "https://www.youtube.com/watch?v=x") :
                t \in Titles, p \in Publisheds }

EntryLists == UNION { [1..n -> Entries] : n \in 0..MaxEntries }

\* --after, --before: not given, "", a text that is no date, a date
DateArgs == {None, Returned(<<>>), Returned(<<"?">>)}
            \cup { Returned(<<DateText[d]>>) : d \in Days }

\* --filter_value: not given, "", title keywords, a date
FilterValues == DateArgs \cup { Returned(<<"a", "B">>), Returned(<<"b">>) }

CriteriaSet ==
    { Criteria("None", None, a, b) : a \in DateArgs, b \in DateArgs }
    \cup { Criteria(by, v, a, b) : by \in {"date", "title"}, v \in FilterValues,
                                   a \in DateArgs, b \in DateArgs }

InitFilter ==
    /\ pc = "filter"
    /\ param_entries \in EntryLists
    /\ criteria \in CriteriaSet
    /\ videos = None
    /\ IdleCache /\ IdleCall /\ IdleRace /\ IdleExtract /\ IdleFetch /\ IdleRun
    /\ IdleHistory

Filter ==
    /\ pc = "filter"
    /\ videos' = filter_videos(param_entries, criteria)
    /\ pc' = "filtered"
    /\ UNCHANGED <<param_entries, criteria, extractVars, cacheVars, callVars,
                   raceVars, historyVars, fetchVars, runVars>>

NextFilter == Filter

SpecFilter == InitFilter /\ [][NextFilter]_vars

----------------------------------------------------------------------------
(* Claims about filter_videos (SpecFilter) *)

\* every entry has a publish timestamp
WellFormedEntries(entries) ==
    \A k \in 1..Len(entries) : strptime_published(entries[k].published).kind = "value"

\* a bound that is missing or a date
WellFormedBound(arg) == arg = None \/ (Truthy(arg) /\ strptime_date(arg.val).kind = "value")

PublishDay(e) == strptime_published(e.published).day

\* after <= publish date, a missing bound imposing no constraint
NotBefore(e, after) == after # None => strptime_date(after.val).day <= PublishDay(e)

\* publish date <= before
NotAfter(e, before) == before # None => PublishDay(e) <= strptime_date(before.val).day

\* the entries of s that are in the set S, in the order of s
Restrict(s, S) == LET In(e) == e \in S IN SelectSeq(s, In)

SeqRange(s) == { s[k] : k \in 1..Len(s) }

\* C11: with no legacy filter, an entry is retained iff after <= its publish
\* date <= before (both bounds inclusive, a missing bound no constraint), and
\* the result with both bounds is the intersection of the result with the
\* after bound only and the result with the before bound only.
C11_InclusiveRange ==
    (/\ pc = "filtered" /\ criteria.filter_by = "None"
     /\ WellFormedEntries(param_entries)
     /\ WellFormedBound(criteria.after_date) /\ WellFormedBound(criteria.before_date))
        => LET a == criteria.after_date
               b == criteria.before_date
               InRange(e) == NotBefore(e, a) /\ NotAfter(e, b)
               onlyAfter == filter_videos(param_entries, Criteria("None", None, a, None))
               onlyBefore == filter_videos(param_entries, Criteria("None", None, None, b))
           IN  /\ videos = Returned(SelectSeq(param_entries, InRange))
               /\ onlyAfter.kind = "value" /\ onlyBefore.kind = "value"
               /\ videos.val = Restrict(onlyAfter.val, SeqRange(onlyBefore.val))
               /\ videos.val = Restrict(onlyBefore.val, SeqRange(onlyAfter.val))

\* both bounds given; an entry published late on the day of the before bound
\* and one on the day of the after bound are retained, one outside is not
C11_Witness ==
    /\ pc = "filtered" /\ criteria.filter_by = "None"
    /\ criteria.after_date = Returned(<<DateText[1]>>)
    /\ criteria.before_date = Returned(<<DateText[2]>>)
    /\ Len(param_entries) = 2
    /\ param_entries[1].published = <<DateText[2], "T23:59:59+00:00">>
    /\ param_entries[2].published = <<DateText[3], "T00:00:00+00:00">>
    /\ videos = Returned(<<param_entries[1]>>)

\* criteria whose dates are dates, and whose legacy value fits its mode
WellFormedCriteria(c) ==
    /\ WellFormedBound(c.after_date) /\ WellFormedBound(c.before_date)
    /\ c.filter_by = "date" =>
          Truthy(c.filter_value) /\ strptime_date(c.filter_value.val).kind = "value"
    /\ c.filter_by = "title" => c.filter_value.kind = "value"

\* the same letter, whatever the case
SameLetter(x, y) == x = y \/ {x, y} = {"A", "a"} \/ {x, y} = {"B", "b"}

\* needle occurs in hay, the case of the letters ignored
ContainsIgnoringCase(needle, hay) ==
    \E i \in 0..(Len(hay) - Len(needle)) :
        \A j \in 1..Len(needle) : SameLetter(needle[j], hay[i + j])

\* the entry satisfies every active predicate of c
Satisfies(e, c) ==
    /\ c.filter_by = "title" => ContainsIgnoringCase(c.filter_value.val, e.title)
    /\ c.filter_by = "date" => PublishDay(e) = strptime_date(c.filter_value.val).day
    /\ NotAfter(e, c.before_date)
    /\ NotBefore(e, c.after_date)

\* C12: for every entry list and every well-formed criteria, filter returns
\* the input entries that satisfy every active predicate (after-date,
\* before-date, legacy exact date or case-insensitive title substring), in
\* input order, none added or duplicated; the predicates are a conjunction,
\* so their order does not matter.
C12_AllActivePredicates ==
    (/\ pc = "filtered"
     /\ WellFormedEntries(param_entries) /\ WellFormedCriteria(criteria))
        => LET Sat(e) == Satisfies(e, criteria)
           IN  videos = Returned(SelectSeq(param_entries, Sat))

\* a title keyword in another case together with a date range: of two
\* entries inside the range the one whose title holds the keyword is kept
C12_Witness ==
    /\ pc = "filtered"
    /\ criteria = Criteria("title", Returned(<<"a", "B">>),
                           Returned(<<DateText[1]>>), Returned(<<DateText[3]>>))
    /\ Len(param_entries) = 2
    /\ param_entries[1].title = <<"B">> /\ param_entries[2].title = <<"A", "b">>
    /\ WellFormedEntries(param_entries)
    /\ videos = Returned(<<param_entries[2]>>)

\* a given text that is no date
Unparseable(arg) == arg.kind = "value" /\ strptime_date(arg.val).kind = "raise"

\* C13: for every entry list, the empty one and one whose entries the date
\* range excludes included, filter called with an unparseable date as after-
\* date, before-date or legacy exact-date value raises and returns no list.
C13_UnparseableDateFails ==
    (/\ pc = "filtered"
     /\ \/ Unparseable(criteria.after_date)
        \/ Unparseable(criteria.before_date)
        \/ criteria.filter_by = "date" /\ Unparseable(criteria.filter_value))
        => videos.kind = "raise"

----------------------------------------------------------------------------
(* The program: runs of __main__, one after another, on the same cache     *)
(* file.  A run that fetched entries hands them to filter_videos; what     *)
(* format_output prints, the clipboard and --save-url are left out.        *)

MaxRuns == 2

FeedUrlBase == "https://www.youtube.com/feeds/videos.xml?channel_id="

\* a builder that leaves the identifier out of the URL
create_rss_feed_url_Fixed(cid) ==
    IF Truthy(cid) THEN Returned(<<FeedUrlBase>>) ELSE None

create_rss_feed_url(cid) ==
    IF Truthy(cid) THEN Returned(<<FeedUrlBase>> \o cid.val) ELSE None

\* --filter_by, --filter_value, --after, --before of a run
RunCriteria ==
    { NoCriteria,
      Criteria("date", Returned(<<"?">>), None, Returned(<<DateText[1]>>)) }

\* the command lines; an option that the run does not read has its default:
\* every other option with --clear-cache, the URL and --no-cache with
\* --channel-id, the filter options with --dry-run, every option with no URL
\* and no --channel-id
RunArgs ==
    { a \in [youtube_url : Refs \cup {""},
             channel_id : { <<>>, <<"U", "C", "b">> },
             no_cache : BOOLEAN, clear_cache : BOOLEAN, dry_run : BOOLEAN,
             limit : {5},
             criteria : RunCriteria] :
        /\ a.clear_cache => a = [NoArgs EXCEPT !.clear_cache = TRUE]
        /\ a.channel_id # <<>> => a.youtube_url = "" /\ ~a.no_cache
        /\ a.dry_run => a.criteria = NoCriteria
        /\ (a.youtube_url = "" /\ a.channel_id = <<>> /\ ~a.clear_cache) => a = NoArgs }

\* the cache files a first run may find
RunFiles == { f \in InitFiles : f.state = "object" => f.map["r2"] = Absent }

Init ==
    /\ pc = "start"
    /\ args \in RunArgs
    /\ file \in RunFiles
    /\ clock = 1
    /\ outcome = "running" /\ runs = 1
    /\ stored = NothingStored /\ expected = <<>>
    /\ IdleCall /\ IdleExtract /\ IdleRace /\ IdleFetch /\ IdleFilter
    /\ fetches = NoRequests /\ rss_feed_url = None /\ file_before = file

Exit(how) == pc' = "exit" /\ outcome' = how

\* lines 516-519: --clear-cache
MainClear ==
    /\ pc = "start" /\ args.clear_cache
    /\ LET r == clear_cache(file)
       IN  /\ file' = r.file
           /\ Exit(IF r.res.kind = "raise" THEN "uncaught" ELSE "cleared")
           /\ stored' = IF r.res.kind = "raise" THEN stored ELSE NothingStored
    /\ UNCHANGED <<clock, args, runs, expected, extractVars, callVars, raceVars, filterVars, historyVars,
                   fetchVars>>

\* lines 521-523: neither a URL nor --channel-id
MainUsage ==
    /\ pc = "start" /\ ~args.clear_cache
    /\ args.youtube_url = "" /\ args.channel_id = <<>>
    /\ Exit("usage")
    /\ UNCHANGED <<args, runs, stored, expected, extractVars, cacheVars, callVars,
                   raceVars, filterVars, historyVars, fetchVars>>

\* lines 531-535: --channel-id
MainDirect ==
    /\ pc = "start" /\ ~args.clear_cache
    /\ args.channel_id # <<>>
    /\ channel_id' = Returned(args.channel_id)
    /\ pc' = "have_id"
    /\ UNCHANGED <<source_code, args, outcome, runs, stored, expected, cacheVars,
                   callVars, raceVars, filterVars, historyVars, fetchVars>>

\* lines 537-546: the cache lookup; on a miss the page fetch starts
MainLookup ==
    /\ pc = "start" /\ ~args.clear_cache
    /\ args.channel_id = <<>> /\ args.youtube_url # ""
    /\ LET use_cache == ~args.no_cache
           cached == get_cached_channel_id(file, args.youtube_url, use_cache)
       IN  /\ expected' = IF use_cache THEN stored[args.youtube_url] ELSE <<>>
           /\ channel_id' = cached
           /\ IF cached.kind = "raise"
              THEN Exit("uncaught") /\ UNCHANGED <<retry, fetches>>
              ELSE IF Truthy(cached)
              THEN pc' = "have_id" /\ UNCHANGED <<retry, fetches, outcome>>
              ELSE /\ retry' = NewRetry("page", DefaultMaxRetries,
                                        DefaultBackoffFactor, args.limit, TRUE)
                   /\ fetches' = [fetches EXCEPT !.page = @ + 1]
                   /\ pc' = "retry"
                   /\ UNCHANGED outcome
    /\ UNCHANGED <<source_code, fetched, printed, requests, args, runs, stored,
                   rss_feed_url, file_before, cacheVars, callVars, raceVars,
                   filterVars>>

\* lines 546-556: the page fetch has returned; extract and cache
MainAfterPage ==
    /\ pc = "fetched" /\ retry.caller = "page"
    /\ source_code' = IF fetched.kind = "value" THEN fetched.val ELSE NoSource
    /\ IF fetched.kind = "value" /\ ~fetched.val.empty
       THEN LET cid == get_youtube_channel_id(fetched.val)
                st == cache_channel_id(file, args.youtube_url, cid.val, clock)
            IN  /\ channel_id' = cid
                /\ IF cid.kind = "raise"
                   THEN Exit("uncaught") /\ UNCHANGED <<file, clock, stored>>
                   ELSE IF Truthy(cid) /\ ~args.no_cache
                   THEN /\ file' = st.file
                        /\ clock' = clock + 1
                        /\ stored' = IF st.res = None /\ ~st.warned
                                     THEN [stored EXCEPT ![args.youtube_url] = cid.val]
                                     ELSE stored
                        /\ IF st.res.kind = "raise"
                           THEN Exit("uncaught")
                           ELSE pc' = "have_id" /\ UNCHANGED outcome
                   ELSE /\ pc' = "have_id"
                        /\ UNCHANGED <<file, clock, stored, outcome>>
       ELSE /\ Exit("page fetch failed")
            /\ UNCHANGED <<channel_id, file, clock, stored>>
    /\ UNCHANGED <<args, runs, expected, callVars, raceVars, filterVars, historyVars, fetchVars>>

\* lines 558-600 and 614-618: the feed URL; the feed fetch starts
MainBuild ==
    /\ pc = "have_id"
    /\ IF ~Truthy(channel_id)
       THEN Exit("channel id not found") /\ UNCHANGED <<retry, fetches, rss_feed_url>>
       ELSE IF create_rss_feed_url(channel_id) = None
       THEN Exit("no feed url") /\ UNCHANGED <<retry, fetches, rss_feed_url>>
       ELSE IF args.dry_run
       THEN Exit("dry run") /\ UNCHANGED <<retry, fetches, rss_feed_url>>
       ELSE /\ \E lxml \in BOOLEAN :
                 retry' = NewRetry("feed", DefaultMaxRetries, DefaultBackoffFactor,
                                   args.limit, lxml)
            /\ rss_feed_url' = create_rss_feed_url(channel_id)
            /\ fetches' = [fetches EXCEPT !.feed = @ + 1]
            /\ pc' = "retry"
            /\ UNCHANGED outcome
    /\ UNCHANGED <<fetched, printed, requests, args, runs, stored, expected,
                   file_before, extractVars, cacheVars, callVars, raceVars,
                   filterVars>>

\* lines 600-613: the feed fetch has returned; filter and print the videos
MainAfterFeed ==
    /\ pc = "fetched" /\ retry.caller = "feed"
    /\ IF Truthy(fetched)
       THEN LET r == filter_videos(fetched.val, args.criteria)
            IN  /\ param_entries' = fetched.val
                /\ criteria' = args.criteria
                /\ videos' = r
                /\ Exit(IF r.kind = "raise" THEN "filter raised" ELSE "videos")
       ELSE Exit("feed fetch failed") /\ UNCHANGED filterVars
    /\ UNCHANGED <<args, runs, stored, expected, extractVars, cacheVars, callVars,
                   raceVars, historyVars, fetchVars>>

\* the program is started again
NewRun(a) ==
    /\ pc = "exit" /\ runs < MaxRuns
    /\ pc' = "start"
    /\ args' = a
    /\ runs' = runs + 1
    /\ outcome' = "running" /\ expected' = <<>>
    /\ source_code' = NoSource /\ channel_id' = None
    /\ retry' = NoRetry /\ fetched' = None /\ printed' = "none"
    /\ requests' = NoRequests
    /\ param_entries' = <<>> /\ criteria' = NoCriteria /\ videos' = None
    /\ fetches' = NoRequests /\ rss_feed_url' = None /\ file_before' = file
    /\ UNCHANGED <<stored, cacheVars, callVars, raceVars>>

Next ==
    \/ MainClear \/ MainUsage \/ MainDirect \/ MainLookup
    \/ RetryCall \/ FetchReturn    \* max_retries = 3: line 174 is not reached
    \/ MainAfterPage \/ MainBuild \/ MainAfterFeed
    \/ \E a \in RunArgs : NewRun(a)

Spec == Init /\ [][Next]_vars

----------------------------------------------------------------------------
(* create_rss_feed_url on its own: any identifier, then calls of it *)

MaxIdLen == 3

\* the strings handed to it: any characters, the empty string included
UrlIds == UNION { [1..n -> URLSafe \cup {"?"}] : n \in 0..MaxIdLen }

InitUrl ==
    /\ pc = "url"
    /\ channel_id \in {None} \cup { Returned(id) : id \in UrlIds }
    /\ source_code = NoSource
    /\ rss_feed_url = None /\ fetches = NoRequests /\ file_before = NoFile
    /\ IdleCache /\ IdleCall /\ IdleRace /\ IdleFetch /\ IdleRun /\ IdleFilter

BuildUrl ==
    /\ pc \in {"url", "built"}
    /\ rss_feed_url' = create_rss_feed_url(channel_id)
    /\ pc' = "built"
    /\ UNCHANGED <<fetches, file_before, extractVars, cacheVars, callVars, raceVars,
                   fetchVars, runVars, filterVars>>

NextUrl == BuildUrl

SpecUrl == InitUrl /\ [][NextUrl]_vars

\* C19: create_rss_feed_url is deterministic and touches no state: for a
\* non-empty identifier it returns the fixed feed endpoint with the
\* identifier as the channel_id parameter, the same on every call and
\* different for different identifiers; for an empty or absent identifier
\* it returns None; it makes no request and reads or writes no cache.
C19_PureFeedUrl ==
    pc = "built" =>
        /\ IF channel_id.kind = "value" /\ channel_id.val # <<>>
           THEN rss_feed_url = Returned(<<FeedUrlBase>> \o channel_id.val)
           ELSE rss_feed_url = None
        /\ create_rss_feed_url(channel_id) = rss_feed_url
        /\ \A other \in UrlIds \ {<<>>} :
              Returned(other) # channel_id
                 => create_rss_feed_url(Returned(other)) # rss_feed_url
        /\ requests = NoRequests /\ fetches = NoRequests
        /\ file = NoFile /\ op = NoCall

\* the URL built for an identifier
C19_Witness ==
    /\ pc = "built"
    /\ channel_id = Returned(<<"U", "C", "a">>)
    /\ rss_feed_url = Returned(<<FeedUrlBase, "U", "C", "a">>)

----------------------------------------------------------------------------
(* Claims about the program (Spec) *)

\* C1: once a run with caching enabled has stored r -> id, a later run that
\* resolves r with caching enabled (no clear and no other store of r in
\* between) issues no page request and uses exactly id as the channel id.
C1_CachedNoPageRequest ==
    (pc # "start" /\ expected # <<>>) =>
        /\ requests.page = 0
        /\ retry.caller # "page"
        /\ channel_id = Returned(expected)
        /\ outcome \notin {"uncaught", "page fetch failed", "channel id not found"}

\* a second run found the identifier the first run stored, without a request
C1_Witness ==
    /\ runs = 2 /\ pc = "have_id"
    /\ ~args.no_cache /\ args.channel_id = <<>>
    /\ expected # <<>> /\ stored[args.youtube_url] = expected
    /\ channel_id = Returned(expected)
    /\ requests.page = 0

\* a run that resolves its reference through the cache
Resolving ==
    /\ ~args.clear_cache /\ args.channel_id = <<>> /\ args.youtube_url # ""
    /\ ~args.no_cache

\* the cache I/O failures: the directory cannot be created, the file cannot
\* be read, the file cannot be written
CacheIOFails(f) == f.state \in {"nodir", "unreadable"} \/ f.readonly

\* this run fetched a page and extracted an identifier from it
PageExtracted ==
    /\ fetches.page = 1 /\ ~source_code.isNone
    /\ channel_id.kind = "value" /\ channel_id.val # <<>>
    /\ pc \in {"have_id", "retry", "fetched", "exit"}

\* the feed URL of the identifier id
FeedUrlOf(id) == Returned(<<FeedUrlBase>> \o id)

\* C15: a cache I/O failure during a run (the directory cannot be created,
\* the file cannot be read or cannot be written) is not fatal: no exception
\* of a cache function ends the run, and after a successful extraction the
\* identifier just resolved is used to build the feed URL and fetch the feed.
C15_CacheFailureNonFatal ==
    (Resolving /\ CacheIOFails(file_before) /\ pc # "start") =>
        /\ ~(outcome = "uncaught" /\ source_code.isNone)
        /\ PageExtracted =>
              \/ pc = "have_id"
              \/ outcome = "dry run"
              \/ fetches.feed = 1 /\ rss_feed_url = FeedUrlOf(channel_id.val)

\* no extraction strategy matches the page body
NoStrategyMatches(html) ==
    \/ html.empty
    \/ ~html.isNone /\ ~OgMatch(html).matched /\ ~ScriptMatches(html)

\* C16: when the page fetch returned a body (an empty one, or one whose
\* canonical field has no value, included) and no extraction strategy
\* matches, the run ends with "channel id not found", not with "page fetch
\* failed"; "page fetch failed" is the outcome only when the fetch failed.
C16_NotFoundDistinct ==
    /\ (/\ pc = "exit" /\ fetches.page = 1 /\ retry.caller = "page"
        /\ retry.out.kind = "value" /\ NoStrategyMatches(retry.out.val))
          => outcome = "channel id not found"
    /\ outcome = "page fetch failed" => retry.caller = "page" /\ retry.out.kind # "value"

\* the cache file can be written
Writable(f) == ~f.readonly /\ f.state \notin {"nodir", "unreadable"}

\* C17 as stated: after every run in which the identifier was extracted
\* from a fetched page, the cache holds reference -> identifier (stored
\* before the feed is fetched), so a lookup of the reference returns it.
C17_AlwaysStored ==
    PageExtracted =>
        get_cached_channel_id(file, args.youtube_url, TRUE) = channel_id

\* C17 as amended: after a run with caching enabled whose cache file can be
\* written, in which the identifier was extracted from a fetched page, the
\* cache holds reference -> identifier, stored before any feed request, so
\* a lookup of the reference returns it; with --no-cache, or when the file
\* cannot be written, the cache file is left as it was.
C17_StoredIfEnabledAndWritable ==
    PageExtracted =>
        IF ~args.no_cache /\ Writable(file_before)
        THEN /\ get_cached_channel_id(file, args.youtube_url, TRUE) = channel_id
             /\ file.map[args.youtube_url] = Structured(channel_id.val, clock - 1)
             /\ stored[args.youtube_url] = channel_id.val
             /\ pc = "have_id" => fetches.feed = 0 /\ requests.feed = 0
        ELSE file = file_before

\* a first resolution: no cache file before, the identifier in it afterwards
\* and no feed request yet
C17_Witness ==
    /\ PageExtracted /\ pc = "have_id" /\ ~args.no_cache
    /\ file_before.state = "absent" /\ ~file_before.readonly
    /\ file.state = "object"
    /\ get_cached_channel_id(file, args.youtube_url, TRUE) = channel_id
    /\ requests.feed = 0

\* C20: in every run the page fetch is called at most once, and only when
\* no identifier was supplied and the cache lookup gave none (or was
\* bypassed); the feed fetch is called at most once, and only after an
\* identifier was obtained and the feed URL built from it; when the page
\* fetch fails or the extraction finds nothing, no feed fetch is made and
\* the cache file is as it was.
C20_NetworkStepsGuarded ==
    /\ fetches.page <= 1 /\ fetches.feed <= 1
    /\ requests.page > 0 => fetches.page = 1
    /\ requests.feed > 0 => fetches.feed = 1
    /\ fetches.page = 1 =>
          /\ args.channel_id = <<>>
          /\ LET cached == get_cached_channel_id(file_before, args.youtube_url,
                                                 ~args.no_cache)
             IN  cached = None \/ cached = Returned(<<>>)
    /\ fetches.feed = 1 =>
          /\ channel_id.kind = "value" /\ channel_id.val # <<>>
          /\ rss_feed_url = FeedUrlOf(channel_id.val)
          /\ fetches.page = 1 => PageExtracted /\ retry.caller = "feed"
    /\ (\/ outcome \in {"page fetch failed", "channel id not found"}
        \/ fetches.page = 1 /\ pc \in {"have_id", "exit"} /\ channel_id = None)
          => /\ fetches.feed = 0 /\ requests.feed = 0
             /\ rss_feed_url = None
             /\ file = file_before

\* a cache miss, a page fetch that needed a retry, then the feed fetch
C20_Witness ==
    /\ pc = "retry" /\ retry.caller = "feed"
    /\ fetches = [page |-> 1, feed |-> 1]
    /\ requests.page = 2 /\ requests.feed = 1
    /\ PageExtracted
    /\ ~args.no_cache /\ file_before.state = "object"

\* C22: a run with the cache bypassed (--no-cache) neither consults nor
\* modifies the backing store: the lookup returns None without reading the
\* file, whatever its state, so the page fetch is made; an identifier
\* extracted is not stored; and the file after the run is the file before it.
C22_BypassLeavesStore ==
    (args.no_cache /\ ~args.clear_cache) =>
        /\ file = file_before
        /\ pc # "start" =>
              /\ fetches.page = 1
              /\ ~(outcome = "uncaught" /\ source_code.isNone)
              /\ source_code.isNone => channel_id = None

\* a bypassed run over a file that holds another identifier for the
\* reference: the page was fetched, the identifier extracted, the videos
\* printed, and the file is as before
C22_Witness ==
    /\ args.no_cache /\ pc = "exit" /\ PageExtracted
    /\ outcome = "videos"
    /\ file = file_before
    /\ file_before.state = "object"
    /\ file_before.map[args.youtube_url].shape = "dict"
    /\ file_before.map[args.youtube_url].channel_id \notin {<<>>, channel_id.val}

====
